---- MODULE Spec2Model ----
(***************************************************************************)
(* CloudPRNT emulator: the settings negotiation, the orchestrator, the     *)
(* HTTP polling loop (index.js and runHttpPolling), the MQTT session with  *)
(* its print-job handlers, and the StarPRNT raster decoder.                *)
(*                                                                         *)
(* An action is the code that runs between two awaits: it consumes the     *)
(* outcome of the request (or timer) the program is suspended on, runs the *)
(* synchronous code that follows and ends by issuing the next request.     *)
(* Requests are recorded when they are issued.                             *)
(***************************************************************************)
EXTENDS Integers, Sequences, FiniteSets, TLC

(* ------------------------------ bounds -------------------------------- *)
\* inbound MQTT messages delivered in one run
MaxJobs == 2
\* 'error' events the MQTT client emits in one run
MaxErrors == 2
\* largest width-in-bytes and height a sampled raster header declares
MaxWidthBytes == 2
MaxHeight == 2

(* ------------------------- program constants -------------------------- *)
\* for (let attempt = 1; attempt <= 3; attempt++)
MaxAttempts == 3
\* --poll-interval default, seconds
PollIntervalSec == 5
\* inPtr = (9 * 8): the header length in bytes
HeaderBytes == 9

delay == PollIntervalSec * 1000

STAR == "application/vnd.star.starprnt"
PNG == "image/png"
TEXT == "text/plain"
PDF == "application/pdf"

\* an optional JSON field that is missing
Absent == "absent"
AbsentList == [present |-> FALSE, list |-> <<>>]
List(s) == [present |-> TRUE, list |-> s]

Includes(list, x) == \E i \in 1..Len(list) : list[i] = x

(* --------------------------- raster decoder --------------------------- *)
\* data[i] of a Uint8Array: undefined (here -1) outside the buffer
Undefined == 0 - 1
ByteAt(data, i) == IF i >= 0 /\ i < Len(data) THEN data[i + 1] ELSE Undefined

\* JS ToInt32 of undefined is 0 in << and >>
ToInt(b) == IF b = Undefined THEN 0 ELSE b

RECURSIVE Pow2(_)
Pow2(n) == IF n = 0 THEN 1 ELSE 2 * Pow2(n - 1)

\* (data[(inPtr / 8) | 0] >> (7 - (inPtr % 8))) & 1
BitAt_LsbFirst(data, inPtr) == (ToInt(ByteAt(data, inPtr \div 8)) \div Pow2(inPtr % 8)) % 2

BitAt(data, inPtr) == (ToInt(ByteAt(data, inPtr \div 8)) \div Pow2(7 - (inPtr % 8))) % 2

MagicOk_NoTerminator(data) ==
    /\ ByteAt(data, 0) = 27
    /\ ByteAt(data, 1) = 29
    /\ ByteAt(data, 2) = 83
    /\ ByteAt(data, 3) = 1

MagicOk(data) ==
    /\ ByteAt(data, 0) = 27
    /\ ByteAt(data, 1) = 29
    /\ ByteAt(data, 2) = 83
    /\ ByteAt(data, 3) = 1
    /\ ByteAt(data, 8) = 0

RasterHeight(data) == ByteAt(data, 6) + ToInt(ByteAt(data, 7)) * 256
RasterWidthBytes(data) == ByteAt(data, 4) + ToInt(ByteAt(data, 5)) * 256

\* the four channel bytes of output pixel p (0-based)
PixelAt(data, p) ==
    LET pixel == IF BitAt(data, HeaderBytes * 8 + p) = 1 THEN 0 ELSE 255
    IN  <<pixel, pixel, pixel, 255>>

\* no call of convertStarprntToPng has been made
NoImage == [called |-> FALSE, ok |-> FALSE, width |-> 0, height |-> 0, pixelData |-> <<>>]

\* convertStarprntToPng up to the pixel buffer: ok = FALSE is the thrown Error
convertStarprnt(data) ==
    IF ~MagicOk(data)
    THEN [called |-> TRUE, ok |-> FALSE, width |-> 0, height |-> 0, pixelData |-> <<>>]
    ELSE LET height == RasterHeight(data)
             width == RasterWidthBytes(data) * 8
         IN  [called |-> TRUE, ok |-> TRUE, width |-> width, height |-> height,
              pixelData |-> [k \in 1..(width * height * 4) |->
                                PixelAt(data, (k - 1) \div 4)[((k - 1) % 4) + 1]]]

GoodRaster == <<27, 29, 83, 1, 1, 0, 1, 0, 0, 165>>
BadMagic == <<27, 29, 83, 2, 1, 0, 1, 0, 0, 165>>
ShortBuffer == <<27, 29>>
Truncated == <<27, 29, 83, 1, 1, 0, 2, 0, 0, 165>>
RasterSamples == {GoodRaster, BadMagic, ShortBuffer, Truncated}

VARIABLES
    program,        \* which entry script runs: "index" (index.js) or "cloudprnt"
    mainPc,         \* orchestrator: "negotiate", "settled", "mqtt", "http", "exit"
    exitCode,       \* process.exitCode
    negPc,          \* getServerSettings: "fetch", "sleep", "done"
    attempt,        \* getServerSettings loop variable
    fetchCount,     \* settings GETs issued
    sleepCount,     \* 5 s waits started
    serverSettings, \* what getServerSettings returned
    responses,      \* the answers the getServerSettings call has received, one per attempt
    timer,          \* getServerSettings: milliseconds of the pending setTimeout, 0 if none
    httpPc,         \* polling loop: "idle", "post", "actionPost", "sleep", "get", "delete", "catchSleep"
    httpStarts,     \* calls of runHttpPolling (entries into the index.js loop)
    code,           \* let code
    pendingThrow,   \* an exception is propagating through the finally block
    cycle,          \* the poll cycle in progress: status received, requests issued
    mqttStarts,     \* calls of runMqttMode
    mqttPromise,    \* the promise runMqttMode returns: "none", "pending", "rejected"
    conn,           \* MQTT client: "none", "connecting", "connected", "offline"
    subPending,     \* a subscribe callback is outstanding
    statusSent,     \* the initial 'not printing' status was published
    mqttErrors,     \* 'error' events emitted
    arrived,        \* inbound messages delivered
    jobs,           \* per inbound message: the handler's position and publishes
    rawData,        \* convertStarprntToPng: the buffer it is called with
    imageData       \* convertStarprntToPng: { data: pixelData, width, height }, or the throw

vars == <<program, mainPc, exitCode, negPc, attempt, fetchCount, sleepCount, serverSettings,
          responses, timer, httpPc, httpStarts, code, pendingThrow, cycle,
          mqttStarts, mqttPromise, conn, subPending, statusSent, mqttErrors, arrived, jobs,
          rawData, imageData>>

negVars == <<negPc, attempt, fetchCount, sleepCount, serverSettings, responses, timer>>
httpVars == <<httpPc, httpStarts, code, pendingThrow, cycle>>
mqttVars == <<mqttStarts, mqttPromise, conn, subPending, statusSent, mqttErrors, arrived, jobs>>
rasterVars == <<rawData, imageData>>

(* ----------------------------- HTTP requests -------------------------- *)
\* if (jobToken) newUrl.searchParams.append('token', jobToken)
TokenParam(jobToken) == IF jobToken \in {Absent, ""} THEN Absent ELSE jobToken

StatusPost == [op |-> "POST", type |-> Absent, code |-> Absent, token |-> Absent, body |-> <<>>]
ActionPost(results) ==
    [op |-> "POST", type |-> Absent, code |-> Absent, token |-> Absent, body |-> results]
Get(type, jobToken) ==
    [op |-> "GET", type |-> type, code |-> Absent, token |-> TokenParam(jobToken), body |-> <<>>]
Delete(c, jobToken) ==
    [op |-> "DELETE", type |-> Absent, code |-> c, token |-> TokenParam(jobToken), body |-> <<>>]

NoStatus ==
    [received |-> FALSE, jobReady |-> FALSE, jobToken |-> Absent,
     mediaTypes |-> AbsentList, clientAction |-> <<>>]

NewCycle == [status |-> NoStatus, log |-> <<StatusPost>>, fetched |-> FALSE, written |-> FALSE]
NoCycle == [status |-> NoStatus, log |-> <<>>, fetched |-> FALSE, written |-> FALSE]

(* ------------------------ capability negotiation ---------------------- *)
\* bodies a 200 answer of the settings endpoint may carry
SettingsSamples ==
    { [json |-> j, serverSupportProtocol |-> p, useTriggerPOST |-> t, mqttConnectionSetting |-> m] :
        j \in {TRUE}, p \in {AbsentList, List(<<"HTTP">>), List(<<"HTTP", "MQTT">>)},
        t \in {Absent, "true", "false"}, m \in {Absent, "broker"} }
    \cup { [json |-> FALSE, serverSupportProtocol |-> AbsentList, useTriggerPOST |-> Absent,
            mqttConnectionSetting |-> Absent] }

NoSettings ==
    [json |-> FALSE, serverSupportProtocol |-> AbsentList, useTriggerPOST |-> Absent,
     mqttConnectionSetting |-> Absent]

\* status 0 stands for a network error or the 15 s timeout: fetch rejects
SettingsResponses ==
    { [status |-> c, settings |-> NoSettings] : c \in {0, 404, 503, 400, 302} }
    \cup { [status |-> 200, settings |-> s] : s \in SettingsSamples }

NoResult == [returned |-> FALSE, useMQTT |-> FALSE, mqttSettings |-> Absent]
HttpOnly == [returned |-> TRUE, useMQTT |-> FALSE, mqttSettings |-> Absent]

\* parseServerSettings: threw = TRUE is the Trigger POST Error
parseServerSettings_ProtocolUnchecked(settings) ==
    IF settings.useTriggerPOST = "true"
    THEN [threw |-> TRUE, value |-> NoResult]
    ELSE [threw |-> FALSE,
          value |-> [returned |-> TRUE, useMQTT |-> TRUE,
                     mqttSettings |-> settings.mqttConnectionSetting]]

parseServerSettings(settings) ==
    LET serverSupportProtocol ==
            IF settings.serverSupportProtocol.present
            THEN settings.serverSupportProtocol.list ELSE <<>>
    IN  IF ~Includes(serverSupportProtocol, "MQTT")
        THEN [threw |-> FALSE, value |-> HttpOnly]
        ELSE IF settings.useTriggerPOST = "true"
        THEN [threw |-> TRUE, value |-> NoResult]
        ELSE [threw |-> FALSE,
              value |-> [returned |-> TRUE, useMQTT |-> TRUE,
                         mqttSettings |-> settings.mqttConnectionSetting]]

\* the body of the try block of one attempt: "return" with a value, "sleep" (the
\* 5xx branch that waits and continues), or "throw" into the catch of the loop
AttemptBody(response, n) ==
    IF response.status = 0 THEN [kind |-> "throw", value |-> NoResult]
    ELSE IF response.status = 404 THEN [kind |-> "return", value |-> HttpOnly]
    ELSE IF response.status = 200
    THEN IF ~response.settings.json THEN [kind |-> "throw", value |-> NoResult]
         ELSE LET parsed == parseServerSettings(response.settings)
              IN  IF parsed.threw THEN [kind |-> "throw", value |-> NoResult]
                  ELSE [kind |-> "return", value |-> parsed.value]
    ELSE IF response.status >= 500
    THEN IF n < MaxAttempts THEN [kind |-> "sleep", value |-> NoResult]
         ELSE [kind |-> "throw", value |-> NoResult]
    ELSE [kind |-> "throw", value |-> NoResult]

\* catch (error) { if (attempt === 3) throw error; await setTimeout(5000) }
CatchRethrows_OneEarly(n) == n >= MaxAttempts - 1

CatchRethrows(n) == n = MaxAttempts

\* the wait of the 5xx branch and the wait of the catch block
ServerErrorDelay == 5000
CatchDelay == 5000

\* catch (error) { process.exitCode = 1; console.error(error.stack) }
ErrorExitCode_Unset == exitCode

ErrorExitCode == 1

\* the settings GET of the current attempt settles
NegFetchDone ==
    /\ mainPc = "negotiate"
    /\ negPc = "fetch"
    /\ \E response \in SettingsResponses :
        LET body == AttemptBody(response, attempt)
        IN  /\ responses' = Append(responses, response)
            /\ IF body.kind = "return"
               THEN /\ serverSettings' = body.value
                    /\ negPc' = "done"
                    /\ mainPc' = "settled"
                    /\ UNCHANGED <<sleepCount, exitCode, timer>>
               ELSE IF body.kind = "sleep" \/ ~CatchRethrows(attempt)
               THEN /\ negPc' = "sleep"
                    /\ sleepCount' = sleepCount + 1
                    /\ timer' = IF body.kind = "sleep" THEN ServerErrorDelay ELSE CatchDelay
                    /\ UNCHANGED <<serverSettings, mainPc, exitCode>>
               ELSE \* the error leaves getServerSettings and reaches the outer catch
                    /\ negPc' = "done"
                    /\ mainPc' = "exit"
                    /\ exitCode' = ErrorExitCode
                    /\ UNCHANGED <<serverSettings, sleepCount, timer>>
    /\ UNCHANGED <<program, attempt, fetchCount>>
    /\ UNCHANGED httpVars
    /\ UNCHANGED mqttVars
    /\ UNCHANGED rasterVars

\* the 5 s wait ends: attempt++ and the next settings GET is issued
NegSleepDone ==
    /\ mainPc = "negotiate"
    /\ negPc = "sleep"
    /\ attempt < MaxAttempts
    /\ attempt' = attempt + 1
    /\ fetchCount' = fetchCount + 1
    /\ negPc' = "fetch"
    /\ timer' = 0
    /\ UNCHANGED <<program, mainPc, exitCode, sleepCount, serverSettings, responses>>
    /\ UNCHANGED httpVars
    /\ UNCHANGED mqttVars
    /\ UNCHANGED rasterVars

(* ------------------------- HTTP polling transport --------------------- *)
\* the media types the loop of each script takes
SupportedTypes(prog) == IF prog = "index" THEN {TEXT} ELSE {STAR, PNG}

\* status.mediaTypes && !(status.mediaTypes.includes(..) || ..): an empty array is truthy
MediaUnsupported_EmptyPasses(prog, mediaTypes) ==
    /\ mediaTypes.present
    /\ Len(mediaTypes.list) > 0
    /\ ~\E t \in SupportedTypes(prog) : Includes(mediaTypes.list, t)

MediaUnsupported(prog, mediaTypes) ==
    /\ mediaTypes.present
    /\ ~\E t \in SupportedTypes(prog) : Includes(mediaTypes.list, t)

\* the type the job is fetched as; "TypeError" is status.mediaTypes.includes on undefined
FetchType(prog, mediaTypes) ==
    IF prog = "index" THEN TEXT
    ELSE IF ~mediaTypes.present THEN "TypeError"
    ELSE IF Includes(mediaTypes.list, STAR) THEN STAR
    ELSE PNG

\* finally { await delete_(url, code, status.jobToken) }: the DELETE is issued on
\* every exit of the try block, normal or by exception
Finally_OnlyOnSuccess(cyc, c, threw) ==
    IF threw
    THEN [pc |-> "catchSleep", pendingThrow |-> FALSE, log |-> cyc.log]
    ELSE [pc |-> "delete", pendingThrow |-> FALSE,
          log |-> Append(cyc.log, Delete(c, cyc.status.jobToken))]

Finally(cyc, c, threw) ==
    [pc |-> "delete", pendingThrow |-> threw,
     log |-> Append(cyc.log, Delete(c, cyc.status.jobToken))]

\* code = '200' after writeFileSync returned
WrittenCode_Stale == "500"

WrittenCode == "200"

\* catch (error) { console.error(..); await setTimeout(delay) } inside while (true)
CatchPc_Rethrow == "crashed"

CatchPc == "catchSleep"

\* the answer to one clientAction request; none for a name the switch does not list
Num(n) == [t |-> "number", n |-> n, s |-> ""]
Str(s) == [t |-> "string", n |-> 0, s |-> s]
Recognized == {"GetPollInterval", "Encodings", "ClientType", "ClientVersion"}
ActionResult_Seconds(request) ==
    IF request = "GetPollInterval" THEN Num(PollIntervalSec)
    ELSE IF request = "Encodings" THEN Str(TEXT)
    ELSE IF request = "ClientType" THEN Str("Star Printer Emulator")
    ELSE Str("HIX")

ActionResult(request) ==
    IF request = "GetPollInterval" THEN Num(delay)
    ELSE IF request = "Encodings" THEN Str(TEXT)
    ELSE IF request = "ClientType" THEN Str("Star Printer Emulator")
    ELSE Str("HIX")

\* the for loop over status.clientAction, pushing in request order
RECURSIVE ActionResults(_)
ActionResults(requests) ==
    IF requests = <<>> THEN <<>>
    ELSE LET request == Head(requests)
             rest == ActionResults(Tail(requests))
         IN  IF request \in Recognized
             THEN <<[request |-> request, result |-> ActionResult(request)]>> \o rest
             ELSE rest

ClientActionSamples ==
    { <<>>, <<"GetPollInterval">>, <<"ClientVersion", "SetID", "Encodings">>,
      <<Absent, "ClientType", "GetPollInterval">> }

MediaSamples ==
    { AbsentList, List(<<>>), List(<<PDF>>), List(<<STAR>>), List(<<PNG>>), List(<<TEXT>>),
      List(<<PNG, STAR>>) }

\* decoded JSON bodies of a 2xx answer to the status POST
Statuses ==
    { [received |-> TRUE, jobReady |-> FALSE, jobToken |-> Absent, mediaTypes |-> AbsentList,
       clientAction |-> a] : a \in ClientActionSamples }
    \cup
    { [received |-> TRUE, jobReady |-> TRUE, jobToken |-> t, mediaTypes |-> m,
       clientAction |-> <<>>] : t \in {Absent, "tokA"}, m \in MediaSamples }

\* runHttpPolling is called (the index.js loop is entered): the first status POST goes out
StartHttp ==
    /\ httpStarts' = httpStarts + 1
    /\ httpPc' = "post"
    /\ cycle' = NewCycle
    /\ code' = Absent
    /\ pendingThrow' = FALSE

\* the status POST settles
HttpPostDone ==
    /\ httpPc = "post"
    /\ \E ok \in BOOLEAN, status \in Statuses :
        IF ~ok
        THEN \* rejected fetch, non-2xx answer or a body that is no JSON
             /\ httpPc' = CatchPc
             /\ UNCHANGED <<code, pendingThrow, cycle>>
        ELSE IF ~status.jobReady
        THEN IF program = "index" /\ Len(status.clientAction) > 0
             THEN /\ httpPc' = "actionPost"
                  /\ cycle' = [cycle EXCEPT !.status = status,
                                 !.log = Append(@, ActionPost(ActionResults(status.clientAction)))]
                  /\ UNCHANGED <<code, pendingThrow>>
             ELSE /\ httpPc' = "sleep"
                  /\ cycle' = [cycle EXCEPT !.status = status]
                  /\ UNCHANGED <<code, pendingThrow>>
        ELSE LET cyc == [cycle EXCEPT !.status = status]
                 type == FetchType(program, status.mediaTypes)
             IN  IF MediaUnsupported(program, status.mediaTypes)
                 THEN LET f == Finally(cyc, "510", TRUE)
                      IN  /\ code' = "510"
                          /\ httpPc' = f.pc
                          /\ pendingThrow' = f.pendingThrow
                          /\ cycle' = [cyc EXCEPT !.log = f.log]
                 ELSE IF type = "TypeError"
                 THEN LET f == Finally(cyc, "500", TRUE)
                      IN  /\ code' = "500"
                          /\ httpPc' = f.pc
                          /\ pendingThrow' = f.pendingThrow
                          /\ cycle' = [cyc EXCEPT !.log = f.log]
                 ELSE /\ code' = "500"
                      /\ httpPc' = "get"
                      /\ cycle' = [cyc EXCEPT !.log = Append(@, Get(type, status.jobToken))]
                      /\ UNCHANGED pendingThrow
    /\ UNCHANGED httpStarts
    /\ UNCHANGED <<program, mainPc, exitCode>>
    /\ UNCHANGED negVars
    /\ UNCHANGED rasterVars
    /\ UNCHANGED mqttVars

\* index.js: the POST carrying the clientAction answers settles
HttpActionPostDone ==
    /\ httpPc = "actionPost"
    /\ \E ok \in BOOLEAN :
        httpPc' = IF ok THEN "sleep" ELSE CatchPc
    /\ UNCHANGED <<httpStarts, code, pendingThrow, cycle>>
    /\ UNCHANGED <<program, mainPc, exitCode>>
    /\ UNCHANGED negVars
    /\ UNCHANGED rasterVars
    /\ UNCHANGED mqttVars

\* await setTimeout(delay); continue -- the next status POST goes out
HttpSleepDone ==
    /\ httpPc = "sleep"
    /\ httpPc' = "post"
    /\ cycle' = NewCycle
    /\ code' = Absent
    /\ UNCHANGED <<httpStarts, pendingThrow>>
    /\ UNCHANGED <<program, mainPc, exitCode>>
    /\ UNCHANGED negVars
    /\ UNCHANGED rasterVars
    /\ UNCHANGED mqttVars

\* the wait of the catch block ends -- the next status POST goes out
HttpCatchSleepDone ==
    /\ httpPc = "catchSleep"
    /\ httpPc' = "post"
    /\ cycle' = NewCycle
    /\ code' = Absent
    /\ UNCHANGED <<httpStarts, pendingThrow>>
    /\ UNCHANGED <<program, mainPc, exitCode>>
    /\ UNCHANGED negVars
    /\ UNCHANGED rasterVars
    /\ UNCHANGED mqttVars

\* the job GET settles; decode, rotate and write follow without an await.
\* rotate180 is a command-line flag: either value is taken at each step, which
\* covers the runs with the flag set and those without.  writeOk is the outcome
\* of lodepng.encode, rotate and writeFileSync together.
HttpGetDone ==
    /\ httpPc = "get"
    /\ \E ok \in BOOLEAN, data \in RasterSamples, pngValid \in BOOLEAN,
          rotate180 \in BOOLEAN, writeOk \in BOOLEAN :
        LET type == cycle.log[Len(cycle.log)].type
            \* convertStarprntToPng for the vendor type, the body as it is otherwise
            converted == IF program = "cloudprnt" /\ type = STAR
                         THEN convertStarprnt(data).ok ELSE TRUE
            \* lodepng.decode of a passed-through body that is no PNG throws
            rotated == IF program = "cloudprnt" /\ rotate180 /\ type = PNG
                       THEN pngValid ELSE TRUE
            done == ok /\ converted /\ rotated /\ writeOk
            c == IF done THEN WrittenCode ELSE code
            cyc == [cycle EXCEPT !.fetched = ok, !.written = done]
            f == Finally(cyc, c, ~done)
        IN  /\ code' = c
            /\ httpPc' = f.pc
            /\ pendingThrow' = f.pendingThrow
            /\ cycle' = [cyc EXCEPT !.log = f.log]
    /\ UNCHANGED httpStarts
    /\ UNCHANGED <<program, mainPc, exitCode>>
    /\ UNCHANGED negVars
    /\ UNCHANGED rasterVars
    /\ UNCHANGED mqttVars

\* the DELETE settles: a pending exception or a failed DELETE reaches the catch,
\* otherwise the loop goes round and the next status POST goes out
HttpDeleteDone ==
    /\ httpPc = "delete"
    /\ \E ok \in BOOLEAN :
        IF pendingThrow \/ ~ok
        THEN /\ httpPc' = CatchPc
             /\ cycle' = cycle
        ELSE /\ httpPc' = "post"
             /\ cycle' = NewCycle
    /\ code' = Absent
    /\ pendingThrow' = FALSE
    /\ UNCHANGED httpStarts
    /\ UNCHANGED <<program, mainPc, exitCode>>
    /\ UNCHANGED negVars
    /\ UNCHANGED rasterVars
    /\ UNCHANGED mqttVars

HttpNext ==
    \/ HttpPostDone
    \/ HttpActionPostDone
    \/ HttpSleepDone
    \/ HttpCatchSleepDone
    \/ HttpGetDone
    \/ HttpDeleteDone

(* --------------------------- MQTT push transport ---------------------- *)
\* base64 text as its sequence of 6-bit values (padding dropped)
Sextet(bytes, q) ==
    LET i == (6 * q) \div 8
        r == (6 * q) % 8
        pair == ToInt(ByteAt(bytes, i)) * 256 + ToInt(ByteAt(bytes, i + 1))
    IN  (pair \div Pow2(10 - r)) % 64

\* what the server does to the raster before it puts it in printData
Base64(bytes) == [k \in 1..((Len(bytes) * 8 + 5) \div 6) |-> Sextet(bytes, k - 1)]

\* Buffer.from(printData, 'base64'): three bytes out of every four sextets
BufferFromBase64(sextets) ==
    [k \in 1..((Len(sextets) * 6) \div 8) |->
        LET q == (8 * (k - 1)) \div 6
            r == (8 * (k - 1)) % 6
            pair == sextets[q + 1] * 64 + sextets[q + 2]
        IN  (pair \div Pow2(4 - r)) % 256]

\* statusCode.startsWith('200'), over the three codes the handler assigns
StartsWith200_NotGeneric(statusCode) == statusCode # "500"

StartsWith200(statusCode) == statusCode = "200"

\* if (jobType !== 'raw')
JobTypeOk(jobType) == jobType = "raw"

\* !mediaTypes || mediaTypes.length !== 1 || !mediaTypes.includes(STAR), negated
MqttMediaOk_AnyLength(mediaTypes) ==
    /\ mediaTypes.present
    /\ Includes(mediaTypes.list, STAR)

MqttMediaOk(mediaTypes) ==
    /\ mediaTypes.present
    /\ Len(mediaTypes.list) = 1
    /\ Includes(mediaTypes.list, STAR)

ClientStatus(inProgress) ==
    [topic |-> "client-status", printingInProgress |-> inProgress, printSucceeded |-> FALSE,
     statusCode |-> "200%20OK", jobToken |-> 0]
PrintResult(jobToken, statusCode) ==
    [topic |-> "print-result", printingInProgress |-> FALSE,
     printSucceeded |-> StartsWith200(statusCode), statusCode |-> statusCode,
     jobToken |-> jobToken]

NoMsg ==
    [json |-> FALSE, title |-> Absent, jobType |-> Absent, mediaTypes |-> AbsentList,
     printData |-> AbsentList]
NoJob ==
    [pc |-> "none", msg |-> NoMsg, jobToken |-> 0, statusCode |-> Absent, startOk |-> FALSE,
     tried |-> FALSE, decoded |-> FALSE, written |-> FALSE, log |-> <<>>]

PrintJob(jobType, mediaTypes, printData) ==
    [json |-> TRUE, title |-> "print-job", jobType |-> jobType, mediaTypes |-> mediaTypes,
     printData |-> printData]

\* inbound messages: bytes that are no JSON, another title, and print jobs
Messages ==
    { NoMsg, [NoMsg EXCEPT !.json = TRUE, !.title = "order-status"] }
    \cup { PrintJob("raw", m, List(Base64(GoodRaster))) :
             m \in {AbsentList, List(<<>>), List(<<PNG>>), List(<<STAR, PNG>>), List(<<STAR>>)} }
    \cup { PrintJob("raw", List(<<STAR>>), d) : d \in {AbsentList, List(Base64(BadMagic))} }
    \cup { PrintJob("url", List(<<STAR>>), List(Base64(GoodRaster))) }

\* mediaTypes and printData are not read after the try block: the handler's record
\* keeps them until the print-result publish has settled
Forget(msg) == [msg EXCEPT !.mediaTypes = AbsentList, !.printData = AbsentList]

\* reject(err): a promise settles once
Reject(promise) == IF promise = "pending" THEN "rejected" ELSE promise

\* client.on('connect'): subscribe, then publish the initial status
MqttOnConnect ==
    /\ conn = "connecting"
    /\ conn' = "connected"
    /\ subPending' = TRUE
    /\ statusSent' = TRUE
    /\ UNCHANGED <<mqttStarts, mqttPromise, mqttErrors, arrived, jobs>>
    /\ UNCHANGED <<program, mainPc, exitCode>>
    /\ UNCHANGED negVars
    /\ UNCHANGED rasterVars
    /\ UNCHANGED httpVars

\* the subscribe callback runs
MqttSubscribeDone ==
    /\ subPending
    /\ subPending' = FALSE
    /\ \E err \in BOOLEAN :
        mqttPromise' = IF err THEN Reject(mqttPromise) ELSE mqttPromise
    /\ UNCHANGED <<mqttStarts, conn, statusSent, mqttErrors, arrived, jobs>>
    /\ UNCHANGED <<program, mainPc, exitCode>>
    /\ UNCHANGED negVars
    /\ UNCHANGED rasterVars
    /\ UNCHANGED httpVars

\* client.on('error')
MqttOnError ==
    /\ conn # "none"
    /\ mqttErrors < MaxErrors
    /\ mqttErrors' = mqttErrors + 1
    /\ mqttPromise' = Reject(mqttPromise)
    /\ UNCHANGED <<mqttStarts, conn, subPending, statusSent, arrived, jobs>>
    /\ UNCHANGED <<program, mainPc, exitCode>>
    /\ UNCHANGED negVars
    /\ UNCHANGED rasterVars
    /\ UNCHANGED httpVars

\* client.on('close'): the connection dropped, or the connect attempt failed
MqttOnClose ==
    /\ conn \in {"connecting", "connected"}
    /\ conn' = "offline"
    /\ UNCHANGED <<mqttStarts, mqttPromise, subPending, statusSent, mqttErrors, arrived, jobs>>
    /\ UNCHANGED <<program, mainPc, exitCode>>
    /\ UNCHANGED negVars
    /\ UNCHANGED rasterVars
    /\ UNCHANGED httpVars

\* mqtt.connect is given no reconnectPeriod: the client dials again by itself
MqttReconnect ==
    /\ conn = "offline"
    /\ conn' = "connecting"
    /\ UNCHANGED <<mqttStarts, mqttPromise, subPending, statusSent, mqttErrors, arrived, jobs>>
    /\ UNCHANGED <<program, mainPc, exitCode>>
    /\ UNCHANGED negVars
    /\ UNCHANGED rasterVars
    /\ UNCHANGED httpVars

\* JSON.parse(message.toString()) returned and title === 'print-job'; otherwise
\* the throw is caught and logged by the listener
IsPrintJob_AnyTitle(msg) == msg.json

IsPrintJob(msg) == msg.json /\ msg.title = "print-job"

\* client.on('message'): JSON.parse, handleMqttMessage, and handlePrintJob up to
\* its first await, the 'printing in progress' publish
MqttOnMessage ==
    /\ conn = "connected"
    /\ arrived < MaxJobs
    /\ arrived' = arrived + 1
    /\ \E msg \in Messages :
        LET j == arrived + 1
        IN  IF ~IsPrintJob(msg)
            THEN jobs' = [jobs EXCEPT ![j] = [NoJob EXCEPT !.pc = "dropped", !.msg = msg]]
            ELSE jobs' = [jobs EXCEPT ![j] =
                            [NoJob EXCEPT !.pc = "pubStart", !.msg = msg, !.jobToken = j,
                                          !.statusCode = "500",
                                          !.log = <<ClientStatus(TRUE)>>]]
    /\ UNCHANGED <<mqttStarts, mqttPromise, conn, subPending, statusSent, mqttErrors>>
    /\ UNCHANGED <<program, mainPc, exitCode>>
    /\ UNCHANGED negVars
    /\ UNCHANGED rasterVars
    /\ UNCHANGED httpVars

\* the 'printing in progress' publish settles: validation, decode and write run,
\* and the finally block issues the print-result publish
MqttPubStartDone(j) ==
    /\ jobs[j].pc = "pubStart"
    /\ \E ok \in BOOLEAN, rotate180 \in BOOLEAN, writeOk \in BOOLEAN :
        LET job == jobs[j]
            msg == job.msg
            typeOk == ok /\ JobTypeOk(msg.jobType)
            mediaOk == typeOk /\ MqttMediaOk(msg.mediaTypes)
            \* Buffer.from(undefined, 'base64') throws
            decoded == /\ mediaOk
                       /\ msg.printData.present
                       /\ convertStarprnt(BufferFromBase64(msg.printData.list)).ok
            written == decoded /\ writeOk
            statusCode == IF written THEN "200"
                          ELSE IF typeOk /\ ~mediaOk THEN "510"
                          ELSE job.statusCode
        IN  jobs' = [jobs EXCEPT ![j] =
                        [job EXCEPT !.pc = "pubResult", !.startOk = ok, !.tried = mediaOk,
                                    !.decoded = decoded, !.written = written,
                                    !.statusCode = statusCode,
                                    !.log = Append(@, PrintResult(job.jobToken, statusCode))]]
    /\ UNCHANGED <<mqttStarts, mqttPromise, conn, subPending, statusSent, mqttErrors, arrived>>
    /\ UNCHANGED <<program, mainPc, exitCode>>
    /\ UNCHANGED negVars
    /\ UNCHANGED rasterVars
    /\ UNCHANGED httpVars

\* the print-result publish settles: the closing status publish follows, unless
\* the print-result publish rejected and the exception leaves the finally block
MqttPubResultDone(j) ==
    /\ jobs[j].pc = "pubResult"
    /\ \E ok \in BOOLEAN :
        jobs' = [jobs EXCEPT ![j] =
                    IF ok
                    THEN [@ EXCEPT !.pc = "pubFinal", !.msg = Forget(@),
                                   !.log = Append(@, ClientStatus(FALSE))]
                    ELSE [@ EXCEPT !.pc = "done", !.msg = Forget(@)]]
    /\ UNCHANGED <<mqttStarts, mqttPromise, conn, subPending, statusSent, mqttErrors, arrived>>
    /\ UNCHANGED <<program, mainPc, exitCode>>
    /\ UNCHANGED negVars
    /\ UNCHANGED rasterVars
    /\ UNCHANGED httpVars

\* the closing status publish settles: handlePrintJob returns or throws into
\* the catch of the message listener
MqttPubFinalDone(j) ==
    /\ jobs[j].pc = "pubFinal"
    /\ jobs' = [jobs EXCEPT ![j].pc = "done"]
    /\ UNCHANGED <<mqttStarts, mqttPromise, conn, subPending, statusSent, mqttErrors, arrived>>
    /\ UNCHANGED <<program, mainPc, exitCode>>
    /\ UNCHANGED negVars
    /\ UNCHANGED rasterVars
    /\ UNCHANGED httpVars

MqttNext ==
    \/ MqttOnConnect
    \/ MqttSubscribeDone
    \/ MqttOnError
    \/ MqttOnClose
    \/ MqttReconnect
    \/ MqttOnMessage
    \/ \E j \in 1..MaxJobs : MqttPubStartDone(j)
    \/ \E j \in 1..MaxJobs : MqttPubResultDone(j)
    \/ \E j \in 1..MaxJobs : MqttPubFinalDone(j)

(* ------------------------------ orchestrator -------------------------- *)
\* runMqttMode is called: reading mqttSettings.hostName of an undefined
\* mqttConnectionSetting throws, otherwise mqtt.connect starts dialling
StartMqtt ==
    /\ mqttStarts' = mqttStarts + 1
    /\ IF serverSettings.mqttSettings = Absent
       THEN /\ mqttPromise' = "rejected"
            /\ conn' = "none"
       ELSE /\ mqttPromise' = "pending"
            /\ conn' = "connecting"
    /\ UNCHANGED <<subPending, statusSent, mqttErrors, arrived, jobs>>

\* getServerSettings returned: if (serverSettings.useMQTT) ... else ...
\* The answers were locals of the call and are gone with it.
MainDispatch ==
    /\ mainPc = "settled"
    /\ responses' = <<>>
    /\ IF serverSettings.useMQTT
       THEN /\ mainPc' = "mqtt"
            /\ StartMqtt
            /\ UNCHANGED httpVars
       ELSE /\ mainPc' = "http"
            /\ StartHttp
            /\ UNCHANGED mqttVars
    /\ UNCHANGED <<program, exitCode>>
    /\ UNCHANGED <<negPc, attempt, fetchCount, sleepCount, serverSettings, timer>>
    /\ UNCHANGED rasterVars

\* the orchestrator is suspended on await runMqttMode(..) and the promise rejected
FallbackReady_PerError == mqttPromise = "rejected" /\ httpStarts < mqttErrors

FallbackReady == mainPc = "mqtt" /\ mqttPromise = "rejected"

\* catch (error) { ...; await runHttpPolling(url, delay, rotate180) }
MainFallback ==
    /\ FallbackReady
    /\ mainPc' = "http"
    /\ StartHttp
    /\ UNCHANGED mqttVars
    /\ UNCHANGED <<program, exitCode>>
    /\ UNCHANGED negVars
    /\ UNCHANGED rasterVars

(* ---------------------------- specifications -------------------------- *)
\* the decoder is not under study: no buffer, no result
NoCall == rawData = <<>> /\ imageData = NoImage

InitCommon ==
    /\ exitCode = 0
    /\ responses = <<>>
    /\ timer = 0
    /\ sleepCount = 0
    /\ code = Absent
    /\ pendingThrow = FALSE
    /\ mqttStarts = 0
    /\ mqttPromise = "none"
    /\ conn = "none"
    /\ subPending = FALSE
    /\ statusSent = FALSE
    /\ mqttErrors = 0
    /\ arrived = 0
    /\ jobs = [j \in 1..MaxJobs |-> NoJob]

\* index.js: arguments parsed, the loop entered, the first status POST in flight
InitIndex ==
    /\ program = "index"
    /\ mainPc = "http"
    /\ negPc = "done"
    /\ attempt = 0
    /\ fetchCount = 0
    /\ serverSettings = NoResult
    /\ httpPc = "post"
    /\ httpStarts = 1
    /\ cycle = NewCycle
    /\ InitCommon
    /\ NoCall

\* the MQTT-capable script: arguments parsed, the first settings GET in flight
InitCloudprnt ==
    /\ program = "cloudprnt"
    /\ mainPc = "negotiate"
    /\ negPc = "fetch"
    /\ attempt = 1
    /\ fetchCount = 1
    /\ serverSettings = NoResult
    /\ httpPc = "idle"
    /\ httpStarts = 0
    /\ cycle = NoCycle
    /\ InitCommon
    /\ NoCall

Init == InitIndex \/ InitCloudprnt

Next ==
    \/ NegFetchDone
    \/ NegSleepDone
    \/ MainDispatch
    \/ MainFallback
    \/ MqttNext
    \/ HttpNext

\* the whole program against every environment
Spec == Init /\ [][Next]_vars

(***************************************************************************)
(* The polling loop reads and writes httpVars and program only, the MQTT   *)
(* listeners mqttVars only, and the orchestrator meets them in StartHttp,  *)
(* StartMqtt and FallbackReady.  The specifications below are Spec under   *)
(* one environment each, started where the component they exercise starts. *)
(***************************************************************************)

\* runHttpPolling entered with no MQTT session behind it (the settings GET got a 404)
InitPolling ==
    /\ program = "cloudprnt"
    /\ mainPc = "http"
    /\ negPc = "done"
    /\ attempt = 1
    /\ fetchCount = 1
    /\ serverSettings = HttpOnly
    /\ httpPc = "post"
    /\ httpStarts = 1
    /\ cycle = NewCycle
    /\ InitCommon
    /\ NoCall

\* the polling loop of either script, from its first status POST
InitHttp == InitIndex \/ InitPolling

SpecHttp == InitHttp /\ [][HttpNext]_vars

\* every request and every timer of the loop settles
LiveHttp == SpecHttp /\ WF_vars(HttpNext)

\* the broker delivers no message: negotiation, orchestrator, session events and
\* the polling loop
SessionNext ==
    \/ NegFetchDone
    \/ NegSleepDone
    \/ MainDispatch
    \/ MainFallback
    \/ MqttOnConnect
    \/ MqttSubscribeDone
    \/ MqttOnError
    \/ MqttOnClose
    \/ MqttReconnect
    \/ HttpNext

SpecSession == Init /\ [][SessionNext]_vars

\* the continuation of await runMqttMode(..) runs once the promise has rejected
LiveSession == SpecSession /\ WF_vars(MainFallback)

\* runMqttMode connected and subscribed, the orchestrator suspended on its promise
InitJobs ==
    /\ program = "cloudprnt"
    /\ mainPc = "mqtt"
    /\ exitCode = 0
    /\ negPc = "done"
    /\ attempt = 1
    /\ fetchCount = 1
    /\ sleepCount = 0
    /\ serverSettings = [returned |-> TRUE, useMQTT |-> TRUE, mqttSettings |-> "broker"]
    /\ httpPc = "idle"
    /\ httpStarts = 0
    /\ code = Absent
    /\ pendingThrow = FALSE
    /\ cycle = NoCycle
    /\ mqttStarts = 1
    /\ mqttPromise = "pending"
    /\ conn = "connected"
    /\ subPending = FALSE
    /\ statusSent = TRUE
    /\ mqttErrors = 0
    /\ arrived = 0
    /\ jobs = [j \in 1..MaxJobs |-> NoJob]
    /\ responses = <<>>
    /\ timer = 0
    /\ NoCall

\* the session stays up: messages arrive and their handlers run
JobsNext ==
    \/ MqttOnMessage
    \/ \E j \in 1..MaxJobs : MqttPubStartDone(j)
    \/ \E j \in 1..MaxJobs : MqttPubResultDone(j)
    \/ \E j \in 1..MaxJobs : MqttPubFinalDone(j)

SpecJobs == InitJobs /\ [][JobsNext]_vars

\* either transport servicing jobs: the polling loop of InitHttp, or the
\* message handlers of InitJobs
InitAcks == InitHttp \/ InitJobs

AcksNext ==
    \/ HttpNext
    \/ JobsNext

SpecAcks == InitAcks /\ [][AcksNext]_vars

\* the session of InitJobs with everything the client can do and the
\* orchestrator's fallback; the status POST of the polling loop is not answered
HandoverNext ==
    \/ MqttNext
    \/ MainFallback

SpecHandover == InitJobs /\ [][HandoverNext]_vars

(***************************************************************************)
(* The decoder on its own: convertStarprntToPng is a function of its       *)
(* buffer, so the buffer is drawn at the start and the call is one step.   *)
(***************************************************************************)

\* the 9 header bytes: each magic byte right or wrong, the two 16-bit sizes
MagicSamples ==
    { <<m0, m1, m2, m3, m8>> :
        m0 \in {27, 0}, m1 \in {29, 27}, m2 \in {83, 0}, m3 \in {1, 2}, m8 \in {0, 1} }
SizeSamples ==
    { <<w, 0, h, 0>> : w \in 0..MaxWidthBytes, h \in 0..MaxHeight }
    \cup { <<w, 1, 0, 0>> : w \in 0..1 }
    \cup { <<0, 0, h, 1>> : h \in 0..1 }
Header(m, z) == <<m[1], m[2], m[3], m[4], z[1], z[2], z[3], z[4], m[5]>>

\* n payload bytes repeating a fill
FillSamples == { <<0>>, <<255>>, <<165, 60>>, <<128, 1>> }
Payload(n, fill) == [k \in 1..n |-> fill[((k - 1) % Len(fill)) + 1]]
MaxPayload == MaxWidthBytes * MaxHeight + 1

\* buffers a job body can be: a header with as many, fewer or more payload
\* bytes than it declares, and buffers that end inside the header
RasterInputs ==
    { Header(m, z) \o Payload(n, fill) :
        m \in MagicSamples, z \in SizeSamples, n \in 0..MaxPayload, fill \in FillSamples }
    \cup { SubSeq(Header(m, z), 1, k) :
             m \in MagicSamples, z \in SizeSamples, k \in 0..(HeaderBytes - 1) }

\* the polling loop as in InitPolling, about to hand a job body to the decoder
InitRaster ==
    /\ program = "cloudprnt"
    /\ mainPc = "http"
    /\ negPc = "done"
    /\ attempt = 1
    /\ fetchCount = 1
    /\ serverSettings = HttpOnly
    /\ httpPc = "get"
    /\ httpStarts = 1
    /\ cycle = [NewCycle EXCEPT !.log = Append(@, Get(STAR, Absent))]
    /\ InitCommon
    /\ rawData \in RasterInputs
    /\ imageData = NoImage

\* convertStarprntToPng(data) up to imageData
ConvertStarprntToPng ==
    /\ ~imageData.called
    /\ imageData' = convertStarprnt(rawData)
    /\ UNCHANGED rawData
    /\ UNCHANGED <<program, mainPc, exitCode>>
    /\ UNCHANGED negVars
    /\ UNCHANGED httpVars
    /\ UNCHANGED mqttVars

RasterNext == ConvertStarprntToPng

SpecRaster == InitRaster /\ [][RasterNext]_vars

(* -------------------------------- claims ------------------------------ *)
Ops(log, op) == {i \in 1..Len(log) : log[i].op = op}

\* the list names none of the types the running script takes
NoSupportedType(prog, mediaTypes) ==
    /\ mediaTypes.present
    /\ \A i \in 1..Len(mediaTypes.list) : mediaTypes.list[i] \notin SupportedTypes(prog)

\* the code a finished servicing attempt has to report
FinalCode(prog, cyc) ==
    IF NoSupportedType(prog, cyc.status.mediaTypes) THEN "510"
    ELSE IF cyc.fetched /\ cyc.written THEN "200"
    ELSE "500"

\* a status POST is issued in this step
IssuesStatusPost == httpPc # "post" /\ httpPc' = "post"

\* C1: a poll that reports a job is followed by exactly one DELETE, with the
\* job's token and the final code, before the next status POST is issued: never
\* two in one cycle, never a DELETE without a job, never a new POST without one.
C1_ExactlyOneAck ==
    /\ [](/\ Cardinality(Ops(cycle.log, "DELETE")) <= 1
          /\ \A i \in Ops(cycle.log, "DELETE") :
                /\ cycle.status.jobReady
                /\ i = Len(cycle.log)
                /\ cycle.log[i] = Delete(FinalCode(program, cycle), cycle.status.jobToken))
    /\ [][(IssuesStatusPost /\ cycle.status.jobReady)
            => Cardinality(Ops(cycle.log, "DELETE")) = 1]_vars

\* C1 witness: the job GET failed and the DELETE went out with code 500 and the token
C1_Witness ==
    /\ httpPc = "catchSleep"
    /\ cycle.status.jobReady
    /\ cycle.status.jobToken = "tokA"
    /\ ~cycle.fetched
    /\ Ops(cycle.log, "GET") # {}
    /\ cycle.log[Len(cycle.log)] = Delete("500", "tokA")

\* C2: a cycle that succeeds has sent the status POST, one GET for the job body
\* and then one DELETE with code 200, and nothing else.
C2_SuccessIsGetThenDelete200 ==
    (cycle.status.jobReady /\ cycle.fetched /\ cycle.written)
        => /\ Len(cycle.log) = 3
           /\ cycle.log[1] = StatusPost
           /\ cycle.log[2].op = "GET"
           /\ cycle.log[2].type \in SupportedTypes(program)
           /\ cycle.log[2].token = TokenParam(cycle.status.jobToken)
           /\ cycle.log[3] = Delete("200", cycle.status.jobToken)

\* C2 witness: a vendor raster job fetched, decoded and written by runHttpPolling
C2_Witness ==
    /\ program = "cloudprnt"
    /\ cycle.written
    /\ cycle.log[2] = Get(STAR, "tokA")
    /\ httpPc = "delete"

\* C3: a ready job whose mediaTypes names no supported type gets one DELETE
\* with code 510 and no GET.
C3_UnsupportedIs510NoGet ==
    (cycle.status.jobReady /\ NoSupportedType(program, cycle.status.mediaTypes))
        => cycle.log = <<StatusPost, Delete("510", cycle.status.jobToken)>>

\* C3 witness: application/pdf offered, the DELETE with 510 is out
C3_Witness ==
    /\ cycle.status.jobReady
    /\ cycle.status.mediaTypes = List(<<PDF>>)
    /\ cycle.log = <<StatusPost, Delete("510", cycle.status.jobToken)>>

\* C4 (as claimed): a ready job without a mediaTypes field is fetched with a GET,
\* and acknowledged with 200 when fetch, decode and write succeed.
C4_AbsentMediaTypesIsFetched ==
    (cycle.status.jobReady /\ ~cycle.status.mediaTypes.present)
        => /\ Ops(cycle.log, "GET") # {}
           /\ \A i \in Ops(cycle.log, "DELETE") :
                 cycle.log[i].code = IF cycle.written THEN "200" ELSE "500"

\* C5: the loop never leaves its cycle; whatever failed, the catch block waits
\* and the next thing sent is a status POST; a status POST is issued again and again.
C5_LoopPollsForever ==
    /\ [](httpPc \in {"post", "actionPost", "sleep", "get", "delete", "catchSleep"})
    /\ [][httpPc = "catchSleep" => httpPc' = "post"]_vars
    /\ (httpPc # "post") ~> (httpPc = "post")
    /\ (httpPc = "post") ~> (httpPc # "post")

\* C5 witness: the DELETE of a written job failed and the loop waits in its catch block
C5_Witness ==
    /\ httpPc = "catchSleep"
    /\ cycle.written
    /\ Ops(cycle.log, "DELETE") # {}

\* C6: settings are negotiated once, the MQTT transport is tried only when the
\* settings say so, every 'error' event rejects its promise and a rejected
\* promise leads to the polling loop; the loop is started at most once, after a
\* negotiated HTTP-only answer or a rejected MQTT attempt, and once it runs
\* nothing is negotiated or started again.
C6_FallbackOnceAndPermanent ==
    /\ [](/\ httpStarts <= 1
          /\ mqttStarts <= 1
          /\ (mqttStarts = 1 => serverSettings.useMQTT)
          /\ (mqttErrors > 0 => mqttPromise = "rejected")
          /\ ((httpStarts = 1 /\ program = "cloudprnt")
                => /\ serverSettings.returned
                   /\ (serverSettings.useMQTT => (mqttStarts = 1 /\ mqttPromise = "rejected"))))
    /\ (mqttPromise = "rejected") ~> (httpStarts = 1 /\ mainPc = "http")
    /\ [][negPc = "done" => negPc' = "done"]_vars
    /\ [][httpStarts > 0
            => (httpStarts' = httpStarts /\ mqttStarts' = mqttStarts
                /\ fetchCount' = fetchCount /\ mainPc' = "http")]_vars

\* C6 witness: two 'error' events, one fallback, the polling loop past its first POST
C6_Witness ==
    /\ mqttErrors >= 2
    /\ mqttStarts = 1
    /\ httpStarts = 1
    /\ httpPc = "sleep"

\* C7 (as claimed): once the connection has closed or an 'error' was emitted,
\* the promise of runMqttMode is rejected.
C7_CloseRejects ==
    (conn = "offline" \/ mqttErrors > 0) => mqttPromise = "rejected"

PrintResults(log) == {i \in 1..Len(log) : log[i].topic = "print-result"}
FinalStatuses(log) == {i \in 1..Len(log) : log[i] = ClientStatus(FALSE)}

\* one print-result, then one closing status
OneResultThenStatus(log) ==
    /\ Cardinality(PrintResults(log)) = 1
    /\ Cardinality(FinalStatuses(log)) = 1
    /\ \A r \in PrintResults(log) : \A f \in FinalStatuses(log) : r < f

\* C8 (as claimed): every handled print job has published exactly one
\* print-result and, after it, exactly one status with printingInProgress false.
C8_OneResultOneStatus ==
    \A j \in 1..MaxJobs : jobs[j].pc = "done" => OneResultThenStatus(jobs[j].log)

\* C9 (as claimed): a print job whose jobType is not raw ends with one
\* print-result (printSucceeded false, code 500) and one closing status, and
\* was neither decoded nor written.
C9_NotRawIs500 ==
    \A j \in 1..MaxJobs :
        (jobs[j].pc = "done" /\ jobs[j].msg.jobType # "raw")
            => /\ OneResultThenStatus(jobs[j].log)
               /\ \A r \in PrintResults(jobs[j].log) :
                     jobs[j].log[r] = PrintResult(jobs[j].jobToken, "500")
               /\ ~PrintResult(jobs[j].jobToken, "500").printSucceeded
               /\ ~jobs[j].tried
               /\ ~jobs[j].written

\* mediaTypes is the one-element list holding the vendor raster type
ExactlyStar(mediaTypes) == mediaTypes.present /\ mediaTypes.list = <<STAR>>

\* the print-result publish is out and the payload still at hand
Reported(j) == jobs[j].pc = "pubResult"

\* C10 (as claimed): a raw job whose mediaTypes is not exactly the vendor raster
\* type is reported with 510 and not decoded; only the exact list is decoded.
C10_BadMediaIs510 ==
    \A j \in 1..MaxJobs :
        Reported(j) =>
            /\ (jobs[j].msg.jobType = "raw" /\ ~ExactlyStar(jobs[j].msg.mediaTypes))
                 => /\ jobs[j].log[2] = PrintResult(jobs[j].jobToken, "510")
                    /\ ~jobs[j].log[2].printSucceeded
                    /\ ~jobs[j].tried
            /\ jobs[j].tried => ExactlyStar(jobs[j].msg.mediaTypes)

\* C10 (amended): such a job is never decoded and never reported as succeeded;
\* its code is 510 when the 'printing in progress' publish went through and 500
\* when that publish failed; only the exact list is decoded.
C10_BadMediaIs510WhenStarted ==
    \A j \in 1..MaxJobs :
        Reported(j) =>
            /\ (jobs[j].msg.jobType = "raw" /\ ~ExactlyStar(jobs[j].msg.mediaTypes))
                 => /\ jobs[j].log[2] =
                          PrintResult(jobs[j].jobToken, IF jobs[j].startOk THEN "510" ELSE "500")
                    /\ ~jobs[j].log[2].printSucceeded
                    /\ ~jobs[j].tried
            /\ jobs[j].tried => (jobs[j].msg.jobType = "raw" /\ ExactlyStar(jobs[j].msg.mediaTypes))

\* C10 witness: a raw job offering two media types was reported with 510
C10_Witness ==
    \E j \in 1..MaxJobs :
        /\ Reported(j)
        /\ jobs[j].msg.jobType = "raw"
        /\ jobs[j].msg.mediaTypes = List(<<STAR, PNG>>)
        /\ jobs[j].startOk
        /\ jobs[j].log[2] = PrintResult(j, "510")

\* the handler of message j has issued its 'printing in progress' publish
Started(j) == jobs[j].pc \notin {"none", "dropped"}

\* the handler of message j has nothing left to issue: it was dropped, or its
\* print-result publish settled and the closing status (if any) went out
Acknowledged(j) == jobs[j].pc \in {"dropped", "pubFinal", "done"}

\* C11 (as claimed): messages are handled one at a time in arrival order: the
\* handling of a message never starts before the print-result and closing
\* status publishes of the message before it have been issued.
C11_OneAtATime ==
    \A j \in 2..MaxJobs : Started(j) => Acknowledged(j - 1)

\* a 5xx answer, or no answer at all (network error, timeout)
ServerFailure(response) == response.status = 0 \/ response.status >= 500

AllAnswers(P(_)) == \A i \in 1..Len(responses) : P(responses[i])

\* C12: while every attempt is answered with a 5xx status or a network error,
\* nothing is returned; each failed attempt but the third is followed by one
\* wait of 5000 ms and then the next attempt; the third failure ends the call
\* with an error after exactly 3 fetches and 2 waits.  There is never a fourth
\* fetch.
C12_ThreeAttemptsThenError ==
    /\ fetchCount <= 3
    /\ (responses # <<>> /\ AllAnswers(ServerFailure)) =>
          /\ ~serverSettings.returned
          /\ mainPc \in {"negotiate", "exit"}
          /\ negPc = "fetch" => (fetchCount = Len(responses) + 1 /\ sleepCount = Len(responses))
          /\ negPc = "sleep" =>
                /\ Len(responses) < 3
                /\ fetchCount = Len(responses)
                /\ sleepCount = Len(responses)
                /\ timer = 5000
          /\ negPc = "done" =>
                /\ Len(responses) = 3
                /\ fetchCount = 3
                /\ sleepCount = 2
                /\ mainPc = "exit"

\* C12 witness: a 503, a timeout and a 503 again, and the call has thrown
C12_Witness ==
    /\ Len(responses) = 3
    /\ responses[1].status = 503
    /\ responses[2].status = 0
    /\ responses[3].status = 503
    /\ mainPc = "exit"
    /\ sleepCount = 2

\* an answer whose status is none of 404, 200 and 5xx
UnexpectedStatus(response) ==
    response.status # 0 /\ response.status \notin {404, 200} /\ response.status < 500

\* C13 (as claimed): an answer with a status that is none of 404, 200 and 5xx
\* ends the negotiation at once: the error reaches the orchestrator and no
\* further settings fetch is made.
C13_UnexpectedStatusIsFatal ==
    \A i \in 1..Len(responses) :
        UnexpectedStatus(responses[i])
            => /\ Len(responses) = i
               /\ fetchCount = i
               /\ negPc = "done"
               /\ mainPc = "exit"

\* a 200 answer that lists MQTT and asks for Trigger POST mode
TriggerPostAnswer(response) ==
    /\ response.status = 200
    /\ response.settings.json
    /\ response.settings.serverSupportProtocol.present
    /\ Includes(response.settings.serverSupportProtocol.list, "MQTT")
    /\ response.settings.useTriggerPOST = "true"

\* C14 (as claimed): a Trigger POST answer ends the negotiation with an error:
\* no settings fetch follows it and no transport mode is ever returned.
C14_TriggerPostIsFatal ==
    \A i \in 1..Len(responses) :
        TriggerPostAnswer(responses[i])
            => /\ Len(responses) = i
               /\ fetchCount = i
               /\ ~serverSettings.returned
               /\ negPc = "done"
               /\ mainPc = "exit"

\* a 200 answer with a JSON body that lists MQTT or does not
ListsMqtt(response) ==
    /\ response.status = 200
    /\ response.settings.json
    /\ response.settings.serverSupportProtocol.present
    /\ Includes(response.settings.serverSupportProtocol.list, "MQTT")
NoMqttListed(response) ==
    /\ response.status = 200
    /\ response.settings.json
    /\ ~(/\ response.settings.serverSupportProtocol.present
          /\ Includes(response.settings.serverSupportProtocol.list, "MQTT"))

HttpAnswer(response) == response.status = 404 \/ NoMqttListed(response)
MqttAnswer(response) == ListsMqtt(response) /\ response.settings.useTriggerPOST # "true"

\* C15: a 404, or a 200 without MQTT in serverSupportProtocol, is answered at
\* once with useMQTT false and no further fetch; a 200 that lists MQTT and does
\* not ask for Trigger POST is answered at once with useMQTT true and the
\* server's connection settings; nothing else makes the call return.
C15_ModeFollowsAnswer ==
    /\ \A i \in 1..Len(responses) :
          /\ HttpAnswer(responses[i])
                => /\ Len(responses) = i
                   /\ fetchCount = i
                   /\ mainPc = "settled"
                   /\ serverSettings.returned
                   /\ ~serverSettings.useMQTT
          /\ MqttAnswer(responses[i])
                => /\ Len(responses) = i
                   /\ fetchCount = i
                   /\ mainPc = "settled"
                   /\ serverSettings.returned
                   /\ serverSettings.useMQTT
                   /\ serverSettings.mqttSettings = responses[i].settings.mqttConnectionSetting
    /\ mainPc = "settled"
          => /\ responses # <<>>
             /\ serverSettings.returned
             /\ (HttpAnswer(responses[Len(responses)]) \/ MqttAnswer(responses[Len(responses)]))

\* C15 witness: a first answer listing HTTP only made the call return useMQTT false
C15_Witness ==
    /\ mainPc = "settled"
    /\ Len(responses) = 1
    /\ responses[1].status = 200
    /\ responses[1].settings.serverSupportProtocol = List(<<"HTTP">>)
    /\ responses[1].settings.mqttConnectionSetting = "broker"
    /\ fetchCount = 1
    /\ serverSettings = HttpOnly

\* getServerSettings threw: the orchestrator is in its outer catch
NegotiationFailed == mainPc = "exit"

\* C16: when getServerSettings ends in an error, whatever the last failure was,
\* the run ends with a non-zero exit status and neither transport was or will
\* be started: no status POST, GET or DELETE, no MQTT connect, no publish.
C16_ErrorStartsNoTransport ==
    /\ [](NegotiationFailed
            => /\ exitCode # 0
               /\ ~serverSettings.returned
               /\ responses # <<>>
               /\ httpStarts = 0
               /\ httpPc = "idle"
               /\ cycle.log = <<>>
               /\ mqttStarts = 0
               /\ conn = "none"
               /\ mqttPromise = "none"
               /\ ~statusSent)
    /\ [][~NegotiationFailed]_vars

\* C16 witness: a 400, a timeout and a Trigger POST answer, and the run has ended
C16_Witness ==
    /\ NegotiationFailed
    /\ Len(responses) = 3
    /\ UnexpectedStatus(responses[1])
    /\ responses[2].status = 0
    /\ TriggerPostAnswer(responses[3])
    /\ exitCode = 1

\* the capability queries the emulator answers, and its canned answers
Answered(request) == request \in {"GetPollInterval", "Encodings", "ClientType", "ClientVersion"}
Canned(request) ==
    CASE request = "GetPollInterval" -> [t |-> "number", n |-> PollIntervalSec * 1000, s |-> ""]
      [] request = "Encodings" -> [t |-> "string", n |-> 0, s |-> "text/plain"]
      [] request = "ClientType" -> [t |-> "string", n |-> 0, s |-> "Star Printer Emulator"]
      [] request = "ClientVersion" -> [t |-> "string", n |-> 0, s |-> "HIX"]

\* body answers the requests: one entry per answered request, in request order
AnswersInOrder(requests, body) ==
    LET answered == {i \in 1..Len(requests) : Answered(requests[i])}
        rank(i) == Cardinality({k \in answered : k <= i})
    IN  /\ Len(body) = Cardinality(answered)
        /\ \A i \in answered :
              body[rank(i)] = [request |-> requests[i], result |-> Canned(requests[i])]

\* the index.js loop received a poll response with no job and a non-empty clientAction
ActionsRequested ==
    /\ program = "index"
    /\ cycle.status.received
    /\ ~cycle.status.jobReady
    /\ Len(cycle.status.clientAction) > 0

ValidMagic(buf) ==
    /\ Len(buf) >= 9
    /\ buf[1] = 27 /\ buf[2] = 29 /\ buf[3] = 83 /\ buf[4] = 1 /\ buf[9] = 0

\* the sizes the header declares; buf[k + 1] is the byte at offset k
DeclaredWidthBytes(buf) == buf[5] + 256 * buf[6]
DeclaredHeight(buf) == buf[7] + 256 * buf[8]
EnoughData(buf) == 9 + DeclaredWidthBytes(buf) * DeclaredHeight(buf) <= Len(buf)

Bit(byte, k) == (byte \div (2 ^ k)) % 2

\* C18 (as claimed): a buffer with a valid magic whose header declares more
\* pixel data than the buffer holds is refused with an error.
C18_TruncatedIsRefused ==
    (imageData.called /\ ValidMagic(rawData) /\ ~EnoughData(rawData)) => ~imageData.ok

\* C19: a buffer in which one of the bytes at offsets 0, 1, 2, 3, 8 is wrong or
\* missing is refused with an error and no image, whatever else it holds.
C19_BadMagicIsRefused ==
    (imageData.called /\ ~ValidMagic(rawData))
        => /\ ~imageData.ok
           /\ imageData.pixelData = <<>>

\* C19 witness: only the byte at offset 8 is wrong, payload follows, the call threw
C19_Witness ==
    /\ imageData.called
    /\ ~imageData.ok
    /\ Len(rawData) > 9
    /\ SubSeq(rawData, 1, 4) = <<27, 29, 83, 1>>
    /\ rawData[9] = 1

\* C20: a buffer with a valid magic and enough data decodes to width
\* 8 * (byte4 + 256 * byte5), height byte6 + 256 * byte7 and width * height * 4
\* channel bytes, pixel i being black when bit 7 - i mod 8 of the byte at offset
\* 9 + i div 8 is set and white otherwise, alpha 255.
C20_DecodesBitmap ==
    (imageData.called /\ ValidMagic(rawData) /\ EnoughData(rawData))
        => /\ imageData.ok
           /\ imageData.width = 8 * (rawData[5] + 256 * rawData[6])
           /\ imageData.height = rawData[7] + 256 * rawData[8]
           /\ Len(imageData.pixelData) = imageData.width * imageData.height * 4
           /\ \A i \in 0..(imageData.width * imageData.height - 1) :
                 SubSeq(imageData.pixelData, 4 * i + 1, 4 * i + 4) =
                    IF Bit(rawData[9 + (i \div 8) + 1], 7 - (i % 8)) = 1
                    THEN <<0, 0, 0, 255>>
                    ELSE <<255, 255, 255, 255>>

\* C20 witness: a 16 x 2 image whose first pixel is black and whose second is white
C20_Witness ==
    /\ imageData.called
    /\ imageData.ok
    /\ imageData.width = 16
    /\ imageData.height = 2
    /\ Len(rawData) = 13
    /\ SubSeq(imageData.pixelData, 1, 8) = <<0, 0, 0, 255, 255, 255, 255, 255>>

\* message j was no JSON, or JSON with a title other than print-job
NotAPrintJob(j) ==
    /\ jobs[j].pc # "none"
    /\ (~jobs[j].msg.json \/ jobs[j].msg.title # "print-job")

\* C21: a message that is no JSON or has another title than print-job is
\* dropped: nothing is ever published for it, the promise of runMqttMode stays
\* pending (so no fallback starts), the client stays connected, and a print job
\* delivered after it is handled as usual.
C21_OtherMessagesDropped ==
    /\ [](\A j \in 1..MaxJobs :
            NotAPrintJob(j)
                => /\ jobs[j].pc = "dropped"
                   /\ jobs[j].log = <<>>
                   /\ mqttPromise = "pending"
                   /\ conn = "connected"
                   /\ httpStarts = 0
                   /\ mainPc = "mqtt")
    /\ [](\A j \in 2..MaxJobs :
            (NotAPrintJob(j - 1) /\ jobs[j].pc # "none" /\ ~NotAPrintJob(j))
                => /\ Started(j)
                   /\ jobs[j].log[1] = ClientStatus(TRUE))
    /\ [][\A j \in 1..MaxJobs :
            (jobs[j].pc = "none" /\ jobs'[j].pc = "dropped")
                => UNCHANGED <<mqttPromise, conn, subPending, mainPc, httpStarts, httpPc>>]_vars

\* C21 witness: an order-status message was dropped and the print job after it
\* was decoded, written and reported with 200
C21_Witness ==
    /\ jobs[1].pc = "dropped"
    /\ jobs[1].msg.title = "order-status"
    /\ jobs[2].pc = "done"
    /\ jobs[2].written
    /\ jobs[2].log[2] = PrintResult(2, "200")

\* the polling loop has issued its first status POST
PollingStarted == httpStarts >= 1 /\ Ops(cycle.log, "POST") # {}

\* C22 (as claimed): once the orchestrator has fallen back to HTTP polling, the
\* MQTT client starts no handler and publishes nothing: no print-result and no
\* client-status publish is issued after the first status POST.
C22_OneTransportAtATime ==
    [][PollingStarted => \A j \in 1..MaxJobs : jobs'[j].log = jobs[j].log]_vars

AckCodes == {"200", "500", "510"}

\* C23: every code sent in a DELETE or a print-result is 200, 500 or 510; a
\* DELETE says 200 only when the GET of its cycle succeeded and the output was
\* written; a print-result says 200 only when the payload was decoded and
\* written, and its printSucceeded is true exactly when its code is 200.
C23_SuccessOnlyForWorkDone ==
    /\ \A i \in Ops(cycle.log, "DELETE") :
          /\ cycle.log[i].code \in AckCodes
          /\ cycle.log[i].code = "200"
                => /\ cycle.fetched
                   /\ cycle.written
                   /\ Ops(cycle.log, "GET") # {}
    /\ \A j \in 1..MaxJobs : \A r \in PrintResults(jobs[j].log) :
          /\ jobs[j].log[r].statusCode \in AckCodes
          /\ jobs[j].log[r].statusCode = "200" => (jobs[j].decoded /\ jobs[j].written)
          /\ jobs[j].log[r].printSucceeded <=> (jobs[j].log[r].statusCode = "200")

\* C23 witness: one print job reported with 200 and printSucceeded after its
\* payload was written, another with 510 and printSucceeded false
C23_Witness ==
    /\ jobs[1].written
    /\ jobs[1].log[2] = PrintResult(1, "200")
    /\ jobs[1].log[2].printSucceeded
    /\ Len(jobs[2].log) >= 2
    /\ jobs[2].log[2].statusCode = "510"
    /\ ~jobs[2].log[2].printSucceeded

====
